---------------------------- MODULE Spec2Model ----------------------------
(***************************************************************************)
(* A model of fledermaus' document pipeline (src/src/core.js): the config  *)
(* loader (readConfigFiles, mergeConfigs), the document queries            *)
(* (filterDocuments, orderDocuments, groupDocuments) and the paginator     *)
(* (getPageNumberUrl, paginate).                                           *)
(*                                                                         *)
(* JavaScript strings are TLA+ strings.  A JavaScript value that may be a  *)
(* number, a string, an array, a mapping or undefined is a record with the *)
(* same five fields whatever its kind, so that any two values can be       *)
(* compared.                                                               *)
(***************************************************************************)
EXTENDS Integers, Sequences, FiniteSets, TLC

VARIABLES
    configFiles,   \* the list getConfigFilesList returns (paths, in glob order)
    yaml,          \* what readYamlFile returns for each path
    configs,       \* the {base, langs} object readConfigFiles returns
    merged,        \* the object mergeConfigs returns
    phase,         \* how far loadConfig has run: "start", "read", "merged"
    heap,          \* the document objects, by reference
    documents,     \* the input array: a sequence of references into heap
    options,       \* the configuration object handed to paginate
    call,          \* the last query call and its arguments
    ret            \* what that call returned (or the error it threw)

vars == <<configFiles, yaml, configs, merged, phase, heap, documents, options, call, ret>>

configVars == <<configFiles, yaml, configs, merged, phase>>

queryVars == <<heap, documents, options, call, ret>>

-----------------------------------------------------------------------------
(* JavaScript values *)

Undefined == [kind |-> "undefined", num |-> 0, str |-> "", items |-> <<>>, map |-> <<>>]

Num(n) == [kind |-> "number", num |-> n, str |-> "", items |-> <<>>, map |-> <<>>]

Text(s) == [kind |-> "string", num |-> 0, str |-> s, items |-> <<>>, map |-> <<>>]

\* an array of numbers
Arr(s) == [kind |-> "array", num |-> 0, str |-> "", items |-> s, map |-> <<>>]

Obj(f) == [kind |-> "object", num |-> 0, str |-> "", items |-> <<>>, map |-> f]

\* obj[key]: undefined when the object has no such property
Get(obj, key) == IF key \in DOMAIN obj THEN obj[key] ELSE Undefined

\* !value
Falsy(v) ==
    \/ v.kind = "undefined"
    \/ (v.kind = "number" /\ v.num = 0)
    \/ (v.kind = "string" /\ v.str = "")

\* a === b: arrays and objects are equal only to themselves, and a value
\* read from a document is never the array or object written in a query
StrictEquals(a, b) == a.kind \in {"undefined", "number", "string"} /\ a = b

-----------------------------------------------------------------------------
(* Strings *)

CharAt(s, i) == SubSeq(s, i, i)

WordChars ==
    {"a","b","c","d","e","f","g","h","i","j","k","l","m","n","o","p","q","r","s",
     "t","u","v","w","x","y","z","A","B","C","D","E","F","G","H","I","J","K","L",
     "M","N","O","P","Q","R","S","T","U","V","W","X","Y","Z","0","1","2","3","4",
     "5","6","7","8","9","_"}

\* the last index of character c in s, 0 when there is none
LastIndexOf(s, c) ==
    LET at == {i \in 1..Len(s) : CharAt(s, i) = c}
    IN  IF at = {} THEN 0 ELSE CHOOSE i \in at : \A j \in at : j <= i

\* filename.replace(/\.\w+$/, '')
removeExtension(filename) ==
    LET dot == LastIndexOf(filename, ".")
    IN  IF /\ dot > 0
           /\ dot < Len(filename)
           /\ \A j \in (dot + 1)..Len(filename) : CharAt(filename, j) \in WordChars
        THEN SubSeq(filename, 1, dot - 1)
        ELSE filename

\* path.basename(filepath)
basename(filepath) ==
    SubSeq(filepath, LastIndexOf(filepath, "/") + 1, Len(filepath))

-----------------------------------------------------------------------------
(* ConfigLoader *)

\* the spread with its operands swapped: { ...b, ...a }
SpreadLeftWins(a, b) ==
    [k \in DOMAIN a \cup DOMAIN b |-> IF k \in DOMAIN a THEN a[k] ELSE b[k]]

\* { ...a, ...b }
Spread(a, b) ==
    [k \in DOMAIN a \cup DOMAIN b |-> IF k \in DOMAIN b THEN b[k] ELSE a[k]]

\* obj with obj[key] = value
Assign(obj, key, value) ==
    [k \in DOMAIN obj \cup {key} |-> IF k = key THEN value ELSE obj[k]]

\* one step of the reduce of readConfigFiles
ReadConfigFile(acc, filepath) ==
    LET name == removeExtension(basename(filepath))
    IN  IF name = "base"
        THEN [acc EXCEPT !.base = yaml[filepath]]
        ELSE [acc EXCEPT !.langs = Assign(acc.langs, name, yaml[filepath])]

RECURSIVE ReadConfigFilesFrom(_, _)
ReadConfigFilesFrom(acc, files) ==
    IF files = <<>> THEN acc
    ELSE ReadConfigFilesFrom(ReadConfigFile(acc, Head(files)), Tail(files))

readConfigFiles(files) ==
    ReadConfigFilesFrom([base |-> <<>>, langs |-> <<>>], files)

\* Object.keys(obj), as a sequence
RECURSIVE KeysOf(_)
KeysOf(keys) ==
    IF keys = {} THEN <<>>
    ELSE LET k == CHOOSE x \in keys : TRUE IN <<k>> \o KeysOf(keys \ {k})

ObjectKeys(obj) == KeysOf(DOMAIN obj)

\* merged[lang] = { ...configs.base, ...langs[lang] }
MergeLang(cfgs, acc, lang) ==
    Assign(acc, lang, Spread(cfgs.base, cfgs.langs[lang]))

RECURSIVE MergeLangsFrom(_, _, _)
MergeLangsFrom(cfgs, acc, langs) ==
    IF langs = <<>> THEN acc
    ELSE MergeLangsFrom(cfgs, MergeLang(cfgs, acc, Head(langs)), Tail(langs))

\* the seed of the reduce of mergeConfigs
MergeSeed(baseConfig) == baseConfig

mergeConfigs(cfgs) ==
    LET baseConfig == [base |-> cfgs.base]
    IN  IF DOMAIN cfgs.langs = {}
        THEN baseConfig
        ELSE MergeLangsFrom(cfgs, MergeSeed(baseConfig), ObjectKeys(cfgs.langs))

-----------------------------------------------------------------------------
(* DocumentQuery: filterDocuments *)

\* items.join(',')
RECURSIVE Join(_)
Join(items) ==
    IF items = <<>> THEN ""
    ELSE IF Len(items) = 1 THEN ToString(items[1])
    ELSE ToString(Head(items)) \o "," \o Join(Tail(items))

\* String(value), the conversion RegExp.prototype.test applies to its argument
String(v) ==
    CASE v.kind = "undefined" -> "undefined"
      [] v.kind = "number" -> ToString(v.num)
      [] v.kind = "string" -> v.str
      [] v.kind = "array" -> Join(v.items)

\* The three kinds of filter a field can carry.  A pattern is the set of
\* strings it matches, a function the set of values it returns truthy on.
Literal(v) == [kind |-> "literal", value |-> v, strings |-> {}, accepts |-> {}]

RegExp(strings) == [kind |-> "regexp", value |-> Undefined, strings |-> strings, accepts |-> {}]

Function(accepts) == [kind |-> "function", value |-> Undefined, strings |-> {}, accepts |-> accepts]

\* the body of the for-in loop of filterDocuments, over the fields left
RECURSIVE FilterLoop(_, _, _)
FilterLoop(document, fields, names) ==
    IF names = <<>> THEN TRUE
    ELSE LET field == Head(names)
             value == fields[field]
             documentValue == Get(document, field)
         IN  IF value.kind = "function"
             THEN IF ~(documentValue \in value.accepts) THEN FALSE
                  ELSE FilterLoop(document, fields, Tail(names))
             ELSE IF value.kind = "regexp"
             THEN IF ~(String(documentValue) \in value.strings) THEN FALSE
                  ELSE FilterLoop(document, fields, Tail(names))
             ELSE IF ~StrictEquals(documentValue, value.value) THEN FALSE
                  ELSE FilterLoop(document, fields, Tail(names))

\* the callback with its return true moved into the loop: only the first
\* field of the map is tested
FilterCallbackFirstField(document, fields) ==
    FilterLoop(document, fields,
               IF ObjectKeys(fields) = <<>> THEN <<>> ELSE <<Head(ObjectKeys(fields))>>)

\* the callback filterDocuments hands to documents.filter
FilterCallback(document, fields) == FilterLoop(document, fields, ObjectKeys(fields))

\* documents.filter(callback), on references into objects
RECURSIVE ArrayFilter(_, _, _)
ArrayFilter(refs, objects, fields) ==
    IF refs = <<>> THEN <<>>
    ELSE IF FilterCallback(objects[Head(refs)], fields)
         THEN <<Head(refs)>> \o ArrayFilter(Tail(refs), objects, fields)
         ELSE ArrayFilter(Tail(refs), objects, fields)

filterDocuments(refs, objects, fields) == ArrayFilter(refs, objects, fields)

-----------------------------------------------------------------------------
(* DocumentQuery: orderDocuments *)

\* one field of formatFieldsForSortByOrder: ['-date'] gives ['date', 'desc']
FormatField(field) ==
    IF Len(field) > 0 /\ CharAt(field, 1) = "-"
    THEN [name |-> SubSeq(field, 2, Len(field)), order |-> "desc"]
    ELSE [name |-> field, order |-> "asc"]

\* formatFieldsForSortByOrder(shortFields): the names and the orders, unzipped
formatFieldsForSortByOrder(shortFields) ==
    [names |-> [i \in 1..Len(shortFields) |-> FormatField(shortFields[i]).name],
     orders |-> [i \in 1..Len(shortFields) |-> FormatField(shortFields[i]).order]]

\* lodash compareAscending, on numbers, undefined and plain objects
compareAscending(value, other) ==
    IF value = other THEN 0
    ELSE IF \/ (value.kind = "number" /\ other.kind = "number" /\ value.num > other.num)
            \/ (value.kind = "undefined" /\ other.kind # "undefined")
    THEN 1
    ELSE IF \/ (value.kind = "number" /\ other.kind = "number" /\ value.num < other.num)
            \/ (other.kind = "undefined" /\ value.kind # "undefined")
    THEN 0 - 1
    ELSE 0

\* result * (order == 'desc' ? -1 : 1)
Directed(result, order) == IF order = "desc" THEN 0 - result ELSE result

\* lodash compareMultiple, from criterion index on
RECURSIVE CompareFrom(_, _, _, _)
CompareFrom(object, other, orders, index) ==
    IF index > Len(object.criteria) THEN object.index - other.index
    ELSE LET result == compareAscending(object.criteria[index], other.criteria[index])
         IN  IF result # 0
             THEN IF index > Len(orders) THEN result
                  ELSE Directed(result, orders[index])
             ELSE CompareFrom(object, other, orders, index + 1)

compareMultiple(object, other, orders) == CompareFrom(object, other, orders, 1)

\* the sort of lodash baseSortBy under compareMultiple, which ranks any two
\* entries (the index breaks every tie): insertion into a sorted array
RECURSIVE SortedInsert(_, _, _)
SortedInsert(sorted, entry, orders) ==
    IF sorted = <<>> THEN <<entry>>
    ELSE IF compareMultiple(entry, Head(sorted), orders) < 0
         THEN <<entry>> \o sorted
         ELSE <<Head(sorted)>> \o SortedInsert(Tail(sorted), entry, orders)

RECURSIVE baseSortBy(_, _)
baseSortBy(entries, orders) ==
    IF entries = <<>> THEN <<>>
    ELSE SortedInsert(baseSortBy(SubSeq(entries, 1, Len(entries) - 1), orders),
                      entries[Len(entries)], orders)

\* the criteria lodash computes for one element: one value per iteratee,
\* the element itself when no iteratee is given
Criteria(document, iteratees) ==
    IF iteratees = <<>> THEN <<Obj(document)>>
    ELSE [i \in 1..Len(iteratees) |-> Get(document, iteratees[i])]

\* _.orderBy(collection, iteratees, orders), on references into objects
orderBy(refs, objects, iteratees, orders) ==
    LET entries == [i \in 1..Len(refs) |->
                       [criteria |-> Criteria(objects[refs[i]], iteratees),
                        index |-> i,
                        value |-> refs[i]]]
        sorted == baseSortBy(entries, orders)
    IN  [i \in 1..Len(sorted) |-> sorted[i].value]

\* orderDocuments without the orders: _.orderBy(documents, fields[0])
orderDocumentsNamesOnly(refs, objects, shortFields) ==
    orderBy(refs, objects, formatFieldsForSortByOrder(shortFields).names, <<>>)

orderDocuments(refs, objects, shortFields) ==
    LET fields == formatFieldsForSortByOrder(shortFields)
    IN  orderBy(refs, objects, fields.names, fields.orders)

-----------------------------------------------------------------------------
(* DocumentQuery: groupDocuments *)

\* what groupDocuments is given: a field name, or a function of the document
FieldName(name) == [kind |-> "name", name |-> name]

KeyFunction(name) == [kind |-> "function", name |-> name]

\* the key functions the model passes to groupDocuments
CallKeyFunction(field, document) ==
    CASE field.name = "parity" ->
             \* document => document.n % 2 (NaN, falsy, without n)
             IF Get(document, "n").kind = "number"
             THEN Num(Get(document, "n").num % 2) ELSE Undefined
      [] field.name = "m" ->
             \* document => document.m
             Get(document, "m")

\* the property name a value is turned into when it indexes an object
PropertyKey(v) == String(v)

\* the push without its guard: grouped[key] = [] on every document
PushReplace(grouped, key, ref) == Assign(grouped, key, <<ref>>)

\* if (!grouped[key]) grouped[key] = []; grouped[key].push(ref)
Push(grouped, key, ref) ==
    Assign(grouped, key, IF key \in DOMAIN grouped THEN Append(grouped[key], ref) ELSE <<ref>>)

\* value.forEach(subValue => ...), over the sub-values left
RECURSIVE PushEach(_, _, _)
PushEach(grouped, subValues, ref) ==
    IF subValues = <<>> THEN grouped
    ELSE PushEach(Push(grouped, PropertyKey(Num(Head(subValues))), ref),
                  Tail(subValues), ref)

\* the key of a document that is not under an array: the function's result
\* when a function is given, else the field's value
ScalarKey(value, field, document) ==
    IF field.kind = "function" THEN CallKeyFunction(field, document) ELSE value

\* the reduce callback of groupDocuments
GroupCallback(grouped, ref, objects, field) ==
    LET document == objects[ref]
        value == IF field.kind = "name" THEN Get(document, field.name) ELSE Undefined
    IN  IF value.kind = "array"
        THEN PushEach(grouped, value.items, ref)
        ELSE LET key == ScalarKey(value, field, document)
             IN  IF Falsy(key) THEN grouped
                 ELSE Push(grouped, PropertyKey(key), ref)

RECURSIVE GroupFrom(_, _, _, _)
GroupFrom(grouped, refs, objects, field) ==
    IF refs = <<>> THEN grouped
    ELSE GroupFrom(GroupCallback(grouped, Head(refs), objects, field),
                   Tail(refs), objects, field)

groupDocuments(refs, objects, field) == GroupFrom(<<>>, refs, objects, field)

-----------------------------------------------------------------------------
(* Paginator *)

\* JavaScript null, and a string, where either may stand
Null == [null |-> TRUE, str |-> ""]

Str(s) == [null |-> FALSE, str |-> s]

\* url.replace(/\/\//, '/'): the first double slash becomes a single one
ReplaceDoubleSlash(url) ==
    LET at == {i \in 1..(Len(url) - 1) : SubSeq(url, i, i + 1) = "//"}
    IN  IF at = {} THEN url
        ELSE LET first == CHOOSE i \in at : \A j \in at : i <= j
             IN  SubSeq(url, 1, first) \o SubSeq(url, first + 2, Len(url))

getPageNumberUrl(urlPrefix, pageNumber, index) ==
    LET url == IF pageNumber = 1
               THEN IF index THEN urlPrefix \o "/index" ELSE urlPrefix
               ELSE urlPrefix \o "/page/" \o ToString(pageNumber)
    IN  ReplaceDoubleSlash(url)

\* an option of the configuration object that may be left out
Has(opts, key) == key \in DOMAIN opts

\* !documentsPerPage, !layout
NoDocumentsPerPage(opts) == ~Has(opts, "documentsPerPage") \/ opts.documentsPerPage = 0

NoLayout(opts) == ~Has(opts, "layout") \/ opts.layout = ""

\* the message of the Error the checks of paginate throw, "" when none does
PaginateError(opts) ==
    IF ~Has(opts, "sourcePathPrefix")
    THEN "\"sourcePathPrefix\" not specified for paginate()."
    ELSE IF ~Has(opts, "urlPrefix")
    THEN "\"urlPrefix\" not specified for paginate()."
    ELSE IF NoDocumentsPerPage(opts)
    THEN "\"documentsPerPage\" not specified for paginate()."
    ELSE IF NoLayout(opts)
    THEN "\"layout\" not specified for paginate()."
    ELSE ""

\* the page count rounded down: Math.floor(length / documentsPerPage)
TotalPagesFloor(length, documentsPerPage) == length \div documentsPerPage

\* Math.ceil(length / documentsPerPage), for a positive documentsPerPage
TotalPages(length, documentsPerPage) ==
    (length + documentsPerPage - 1) \div documentsPerPage

\* documents.slice(begin, end), with 0-based begin and exclusive end
Slice(refs, begin, end) ==
    SubSeq(refs, begin + 1, IF end < Len(refs) THEN end ELSE Len(refs))

\* const begin = (pageNumber - 1) * documentsPerPage
Begin(pageNumber, documentsPerPage) == (pageNumber - 1) * documentsPerPage

PageDocuments(refs, pageNumber, documentsPerPage) ==
    Slice(refs, Begin(pageNumber, documentsPerPage),
          Begin(pageNumber, documentsPerPage) + documentsPerPage)

PreviousUrl(urlPrefix, pageNumber) ==
    IF pageNumber > 1 THEN Str(getPageNumberUrl(urlPrefix, pageNumber - 1, FALSE)) ELSE Null

\* the next link built from the page's own number
NextUrlOffByOne(urlPrefix, pageNumber, totalPages) ==
    IF pageNumber < totalPages
    THEN Str(getPageNumberUrl(urlPrefix, pageNumber, FALSE)) ELSE Null

NextUrl(urlPrefix, pageNumber, totalPages) ==
    IF pageNumber < totalPages
    THEN Str(getPageNumberUrl(urlPrefix, pageNumber + 1, FALSE)) ELSE Null

\* the object the map callback of paginate returns for one page number
Page(refs, opts, pageNumber, totalPages) ==
    LET index == Has(opts, "index") /\ opts.index
        extra == IF Has(opts, "extra") THEN opts.extra ELSE <<>>
    IN  Spread(extra,
               [previousUrl |-> PreviousUrl(opts.urlPrefix, pageNumber),
                nextUrl |-> NextUrl(opts.urlPrefix, pageNumber, totalPages),
                documents |-> PageDocuments(refs, pageNumber, opts.documentsPerPage),
                documentsTotal |-> Len(refs),
                sourcePath |-> getPageNumberUrl(opts.sourcePathPrefix, pageNumber, index),
                layout |-> opts.layout,
                url |-> getPageNumberUrl(opts.urlPrefix, pageNumber, FALSE)])

\* a paginate that returns no page instead of throwing
paginateNoThrow(refs, opts) ==
    IF PaginateError(opts) # ""
    THEN [error |-> "", pages |-> <<>>]
    ELSE [error |-> "",
          pages |-> [pageNumber \in 1..TotalPages(Len(refs), opts.documentsPerPage) |->
                        Page(refs, opts, pageNumber,
                             TotalPages(Len(refs), opts.documentsPerPage))]]

\* paginate(documents, opts): the error thrown, or the pages returned
paginate(refs, opts) ==
    IF PaginateError(opts) # ""
    THEN [error |-> PaginateError(opts), pages |-> <<>>]
    ELSE LET totalPages == TotalPages(Len(refs), opts.documentsPerPage)
         IN  [error |-> "",
              pages |-> [pageNumber \in 1..totalPages |->
                            Page(refs, opts, pageNumber, totalPages)]]

-----------------------------------------------------------------------------
(* The config folders the model loads *)

\* every mapping from some of the keys to the values
PartialFns(keys, values) == UNION {[S -> values] : S \in SUBSET keys}

\* the elements of seq whose index is in S, in the order of seq
Pick(seq, S) ==
    LET F[i \in 0..Len(seq)] ==
            IF i = 0 THEN <<>>
            ELSE IF i \in S THEN Append(F[i - 1], seq[i]) ELSE F[i - 1]
    IN  F[Len(seq)]

ConfigKeys == {"a", "b"}

BasePath == "config/base.yml"

LangPaths == <<"config/en.yml", "config/ru.yml">>

\* what glob.sync lists when every file exists
ConfigPaths == <<BasePath>> \o LangPaths

BaseValues ==
    {Num(1), Num(2), Arr(<<1, 2>>), Obj([x |-> Num(1), y |-> Num(2)])}

LangValues ==
    {Num(3), Arr(<<3>>), Obj([y |-> Num(3)])}

BaseConfigs == PartialFns(ConfigKeys, BaseValues)

LangConfigs == PartialFns(ConfigKeys, LangValues)

NoCall == [op |-> "none"]

NoRet == [error |-> "", docs |-> <<>>, groups |-> <<>>, pages |-> <<>>]

\* no query has been made: the state of the config loader's runs
QueryIdle ==
    /\ heap = <<>>
    /\ documents = <<>>
    /\ options = <<>>
    /\ call = NoCall
    /\ ret = NoRet

InitConfig ==
    /\ \E S \in SUBSET (1..Len(ConfigPaths)) :
       \E b \in BaseConfigs :
       \E l \in [1..Len(LangPaths) -> LangConfigs] :
          /\ configFiles = Pick(ConfigPaths, S)
          /\ yaml = [p \in {ConfigPaths[i] : i \in S} |->
                        IF p = BasePath THEN b
                        ELSE l[CHOOSE i \in 1..Len(LangPaths) : LangPaths[i] = p]]
    /\ configs = [base |-> <<>>, langs |-> <<>>]
    /\ merged = <<>>
    /\ phase = "start"
    /\ QueryIdle

\* loadConfig, first half: const configs = readConfigFiles(files)
ReadConfigFilesCall ==
    /\ phase = "start"
    /\ configs' = readConfigFiles(configFiles)
    /\ phase' = "read"
    /\ UNCHANGED <<configFiles, yaml, merged>>
    /\ UNCHANGED queryVars

\* loadConfig, second half: return mergeConfigs(configs)
MergeConfigsCall ==
    /\ phase = "read"
    /\ merged' = mergeConfigs(configs)
    /\ phase' = "merged"
    /\ UNCHANGED <<configFiles, yaml, configs>>
    /\ UNCHANGED queryVars

NextConfig == ReadConfigFilesCall \/ MergeConfigsCall

SpecConfig == InitConfig /\ [][NextConfig]_vars

-----------------------------------------------------------------------------
(* The document collections the model queries *)

MaxDocs == 3

\* a document as parsePage leaves it: sourcePath and url, and front-matter
\* fields (given as <<name, value>> pairs)
Document(sourcePath, url, attributes) ==
    LET names == {attributes[i][1] : i \in 1..Len(attributes)}
    IN  [k \in names \cup {"sourcePath", "url"} |->
            IF k = "sourcePath" THEN Text(sourcePath)
            ELSE IF k = "url" THEN Text(url)
            ELSE attributes[CHOOSE i \in 1..Len(attributes) : attributes[i][1] = k][2]]

\* the documents of the model: numbers n and m (either may be missing), a
\* lang, and tags, an array or a single value; the first and the last are
\* equal under n and m
DocPool ==
    {Document("posts/a.md", "/posts/a",
              <<<<"n", Num(1)>>, <<"m", Num(2)>>, <<"tags", Arr(<<1, 2>>)>>, <<"lang", Text("en")>>>>),
     Document("posts/b.md", "/posts/b",
              <<<<"n", Num(1)>>, <<"m", Num(1)>>, <<"tags", Arr(<<2, 2>>)>>, <<"lang", Text("ru")>>>>),
     Document("posts/c.md", "/posts/c",
              <<<<"n", Num(2)>>, <<"m", Num(1)>>, <<"tags", Num(1)>>, <<"lang", Text("")>>>>),
     Document("about.md", "/about",
              <<<<"n", Num(0)>>, <<"tags", Arr(<<>>)>>, <<"lang", Text("en")>>>>),
     Document("index.md", "/",
              <<<<"m", Num(2)>>, <<"tags", Arr(<<0>>)>>>>),
     Document("posts/d.md", "/posts/d",
              <<<<"n", Num(1)>>, <<"m", Num(2)>>, <<"tags", Arr(<<1, 2>>)>>, <<"lang", Text("en")>>>>)}

\* the predicate maps handed to filterDocuments
FilterFields ==
    {<<>>,
     [n |-> Literal(Num(1))],
     [n |-> Literal(Num(1)), m |-> Function({Num(2)})],
     [m |-> Literal(Undefined)],
     [n |-> RegExp({"1"})],
     [lang |-> Literal(Text("en")),
      url |-> RegExp({"/posts/a", "/posts/b", "/posts/c", "/posts/d"})],
     [tags |-> RegExp({"2", "1,2", "2,2"}), n |-> Function({Undefined, Num(0), Num(1)})],
     [tags |-> Literal(Arr(<<1, 2>>))]}

\* the field lists handed to orderDocuments
OrderFields ==
    {<<>>, <<"n">>, <<"-n">>, <<"n", "m">>, <<"n", "-m">>, <<"-m", "n">>, <<"-n", "-m">>}

\* the field names and key functions handed to groupDocuments
GroupFields ==
    {FieldName("tags"), FieldName("n"), FieldName("lang"),
     KeyFunction("parity"), KeyFunction("m")}

OptionKeys ==
    {"sourcePathPrefix", "urlPrefix", "documentsPerPage", "layout", "index", "extra"}

\* an option left out (<<>>) or given (<<value>>)
Maybe(values) == {<<>>} \cup {<<v>> : v \in values}

\* the configuration object with exactly the options given
MakeOptions(sourcePathPrefix, urlPrefix, documentsPerPage, layout, index, extra) ==
    LET given == [sourcePathPrefix |-> sourcePathPrefix, urlPrefix |-> urlPrefix,
                  documentsPerPage |-> documentsPerPage, layout |-> layout,
                  index |-> index, extra |-> extra]
    IN  [k \in {key \in OptionKeys : Len(given[key]) > 0} |-> given[k][1]]

\* the pagination a site script asks for after its queries
QueryOptions ==
    {MakeOptions(<<"blog">>, <<"/blog">>, <<2>>, <<"list">>, <<>>, <<>>)}

ConfigIdle ==
    /\ configFiles = <<>>
    /\ yaml = <<>>
    /\ configs = [base |-> <<>>, langs |-> <<>>]
    /\ merged = <<>>
    /\ phase = "start"

\* a collection of at most max documents of the pool, and a pagination config
InitDocuments(pool, max, optionsPool) ==
    /\ \E N \in 0..max :
          /\ heap \in [1..N -> pool]
          /\ documents = [i \in 1..N |-> i]
    /\ options \in optionsPool
    /\ call = NoCall
    /\ ret = NoRet

InitQuery == InitDocuments(DocPool, MaxDocs, QueryOptions) /\ ConfigIdle

FilterDocumentsCall ==
    /\ \E fields \in FilterFields :
          /\ call' = [op |-> "filter", fields |-> fields]
          /\ ret' = [NoRet EXCEPT !.docs = filterDocuments(documents, heap, fields)]
    /\ UNCHANGED <<heap, documents, options>>
    /\ UNCHANGED configVars

\* an ordering that sorts the input array in place (documents.sort)
OrderDocumentsCallInPlace ==
    /\ \E fields \in OrderFields :
          /\ call' = [op |-> "order", fields |-> fields]
          /\ documents' = orderDocuments(documents, heap, fields)
          /\ ret' = [NoRet EXCEPT !.docs = documents']
    /\ UNCHANGED <<heap, options>>
    /\ UNCHANGED configVars

OrderDocumentsCall ==
    /\ \E fields \in OrderFields :
          /\ call' = [op |-> "order", fields |-> fields]
          /\ ret' = [NoRet EXCEPT !.docs = orderDocuments(documents, heap, fields)]
    /\ UNCHANGED <<heap, documents, options>>
    /\ UNCHANGED configVars

GroupDocumentsCall ==
    /\ \E field \in GroupFields :
          /\ call' = [op |-> "group", field |-> field]
          /\ ret' = [NoRet EXCEPT !.groups = groupDocuments(documents, heap, field)]
    /\ UNCHANGED <<heap, documents, options>>
    /\ UNCHANGED configVars

PaginateCall ==
    /\ call' = [op |-> "paginate"]
    /\ ret' = [NoRet EXCEPT !.error = paginate(documents, options).error,
                            !.pages = paginate(documents, options).pages]
    /\ UNCHANGED <<heap, documents, options>>
    /\ UNCHANGED configVars

NextQuery ==
    \/ FilterDocumentsCall
    \/ OrderDocumentsCall
    \/ GroupDocumentsCall
    \/ PaginateCall

SpecQuery == InitQuery /\ [][NextQuery]_vars

-----------------------------------------------------------------------------
(* The paginations the model asks for *)

MaxPaginated == 10

MaxPerPage == 4

SourcePathPrefixes == {"", "blog", "blog/", "a//b//c"}

UrlPrefixes == {"", "/", "/blog", "/a//b//c"}

\* every configuration: each option left out or given, a documentsPerPage of
\* 0 and an empty layout included
PaginateOptions ==
    {MakeOptions(sp, up, dpp, ly, ix, ex) :
        sp \in Maybe(SourcePathPrefixes), up \in Maybe(UrlPrefixes),
        dpp \in Maybe(0..MaxPerPage), ly \in Maybe({"", "list"}),
        ix \in Maybe({TRUE}), ex \in Maybe({[title |-> "Blog"]})}

\* pagination reads no field of a document: one document content is enough
InitPaginate ==
    /\ InitDocuments({Document("posts/a.md", "/posts/a", <<>>)}, MaxPaginated, PaginateOptions)
    /\ ConfigIdle

NextPaginate == PaginateCall

SpecPaginate == InitPaginate /\ [][NextPaginate]_vars

-----------------------------------------------------------------------------
(* Claims about the config loader *)

\* C2: the result of mergeConfigs has one of two shapes: with no language
\* config, the single key base holding the base config; with at least one
\* language config, exactly one key per language code and no base key.
C2_TwoShapes ==
    phase = "merged" =>
        IF DOMAIN configs.langs = {}
        THEN DOMAIN merged = {"base"} /\ merged.base = configs.base
        ELSE DOMAIN merged = DOMAIN configs.langs

\* configs with the config of language lang set to cfg
WithLang(cfgs, lang, cfg) == [cfgs EXCEPT !.langs = Assign(cfgs.langs, lang, cfg)]

\* configs without language lang
WithoutLang(cfgs, lang) ==
    [cfgs EXCEPT !.langs = [k \in DOMAIN cfgs.langs \ {lang} |-> cfgs.langs[k]]]

LangCodes == {removeExtension(basename(LangPaths[i])) : i \in 1..Len(LangPaths)}

\* C3: the merged config of a language holds, for each top-level key, the
\* language's value when the language defines the key and the base value
\* otherwise; and it is the same whatever the other languages' configs are
\* (added, removed or changed).
C3_LanguageOverBase ==
    phase = "merged" =>
        \A lang \in DOMAIN configs.langs :
            /\ DOMAIN merged[lang] = DOMAIN configs.base \cup DOMAIN configs.langs[lang]
            /\ \A k \in DOMAIN merged[lang] :
                  merged[lang][k] = IF k \in DOMAIN configs.langs[lang]
                                    THEN configs.langs[lang][k]
                                    ELSE configs.base[k]
            /\ \A other \in LangCodes \ {lang} :
                  /\ mergeConfigs(WithoutLang(configs, other))[lang] = merged[lang]
                  /\ \A cfg \in LangConfigs :
                        mergeConfigs(WithLang(configs, other, cfg))[lang] = merged[lang]

\* C3 witness: base {a: 1, b: 2} and the override {b: 3} of en merged to
\* {a: 1, b: 3}, next to a second language that also overrides a key.
C3_Witness ==
    /\ phase = "merged"
    /\ configs.base = [a |-> Num(1), b |-> Num(2)]
    /\ DOMAIN configs.langs = {"en", "ru"}
    /\ configs.langs.en = [b |-> Num(3)]
    /\ configs.langs.ru = [a |-> Num(3)]
    /\ merged.en = [a |-> Num(1), b |-> Num(3)]

\* the recursive, right-biased merge of two mappings
RECURSIVE DeepMerge(_, _)
DeepMerge(a, b) ==
    [k \in DOMAIN a \cup DOMAIN b |->
        IF k \notin DOMAIN b THEN a[k]
        ELSE IF k \notin DOMAIN a THEN b[k]
        ELSE IF a[k].kind = "object" /\ b[k].kind = "object"
             THEN Obj(DeepMerge(a[k].map, b[k].map))
             ELSE b[k]]

\* C4: where the base config and a language config both hold a mapping
\* under a key, the merged config holds the recursive merge of the two
\* mappings under it; where both hold an array, it holds the language's array.
C4_RecursiveMerge ==
    phase = "merged" =>
        \A lang \in DOMAIN configs.langs :
        \A k \in DOMAIN configs.base \cap DOMAIN configs.langs[lang] :
            LET b == configs.base[k]
                l == configs.langs[lang][k]
            IN  /\ (b.kind = "object" /\ l.kind = "object") =>
                      merged[lang][k] = Obj(DeepMerge(b.map, l.map))
                /\ (b.kind = "array" /\ l.kind = "array") =>
                      merged[lang][k] = l


-----------------------------------------------------------------------------
(* Claims about the document queries *)

\* whether one filter succeeds on a field's value
Succeeds(filter, v) ==
    CASE filter.kind = "literal" -> StrictEquals(v, filter.value)
      [] filter.kind = "regexp" -> String(v) \in filter.strings
      [] filter.kind = "function" -> v \in filter.accepts

\* the j-th smallest element of a set of numbers
Nth(S, j) == CHOOSE i \in S : Cardinality({k \in S : k <= i}) = j

\* how often x occurs in seq
Count(seq, x) == Cardinality({i \in 1..Len(seq) : seq[i] = x})

\* C5: filterDocuments returns exactly the documents on which every filter
\* of the map succeeds (a literal by strict equality, a pattern by testing
\* the value, a function by a truthy result, a missing field as undefined),
\* in input order, each as often as in the input; the empty map returns all.
C5_FilterAll ==
    call.op = "filter" =>
        LET kept == {i \in 1..Len(documents) :
                        \A f \in DOMAIN call.fields :
                            Succeeds(call.fields[f], Get(heap[documents[i]], f))}
        IN  /\ Len(ret.docs) = Cardinality(kept)
            /\ \A j \in 1..Len(ret.docs) : ret.docs[j] = documents[Nth(kept, j)]
            /\ (DOMAIN call.fields = {} => ret.docs = documents)

\* C5 witness: a map of two filters kept some documents and dropped one
\* that passes the first filter alone.
C5_Witness ==
    /\ call.op = "filter"
    /\ call.fields = [n |-> Literal(Num(1)), m |-> Function({Num(2)})]
    /\ Len(ret.docs) > 0
    /\ \E i \in 1..Len(documents) :
          /\ Get(heap[documents[i]], "n") = Num(1)
          /\ Get(heap[documents[i]], "m") = Num(1)
          /\ Count(ret.docs, documents[i]) = 0

\* a sort field's name and direction, as the claim reads them
Descending(field) == Len(field) > 0 /\ SubSeq(field, 1, 1) = "-"

KeyName(field) == IF Descending(field) THEN SubSeq(field, 2, Len(field)) ELSE field

\* ascending order of field values: numbers by size, a missing value last
ValueBefore(a, b) ==
    \/ a.kind = "number" /\ b.kind = "number" /\ a.num < b.num
    \/ a.kind = "number" /\ b.kind = "undefined"

\* document a comes strictly before document b under the k-th sort field
FieldBefore(a, b, field) ==
    IF Descending(field)
    THEN ValueBefore(Get(b, KeyName(field)), Get(a, KeyName(field)))
    ELSE ValueBefore(Get(a, KeyName(field)), Get(b, KeyName(field)))

SameKey(a, b, field) == Get(a, KeyName(field)) = Get(b, KeyName(field))

\* a comes strictly before b in the lexicographic order of the field list
LexBefore(a, b, fields) ==
    \E k \in 1..Len(fields) :
        /\ \A l \in 1..(k - 1) : SameKey(a, b, fields[l])
        /\ FieldBefore(a, b, fields[k])

\* C6: orderDocuments returns a permutation of its input, sorted
\* lexicographically by the listed fields (leftmost first, ascending unless
\* the name carries the - prefix), documents equal under all listed fields
\* keeping their input order.
C6_OrderStable ==
    call.op = "order" =>
        /\ Len(ret.docs) = Len(documents)
        /\ \A i \in 1..Len(documents) :
              Count(ret.docs, documents[i]) = Count(documents, documents[i])
        /\ \A i, j \in 1..Len(ret.docs) :
              i < j =>
                 LET a == heap[ret.docs[i]]
                     b == heap[ret.docs[j]]
                 IN  /\ ~LexBefore(b, a, call.fields)
                     /\ (\A l \in 1..Len(call.fields) : SameKey(a, b, call.fields[l]))
                            => \E p, q \in 1..Len(documents) :
                                   /\ p < q
                                   /\ documents[p] = ret.docs[i]
                                   /\ documents[q] = ret.docs[j]

\* C6 witness: ordered by n ascending then m descending; the input was out
\* of order, held two different documents equal under both fields and two
\* with the same n and different m.
C6_Witness ==
    /\ call.op = "order"
    /\ call.fields = <<"n", "-m">>
    /\ ret.docs # documents
    /\ \E i, j \in 1..Len(documents) :
          /\ i # j
          /\ heap[documents[i]].sourcePath # heap[documents[j]].sourcePath
          /\ Get(heap[documents[i]], "n") = Get(heap[documents[j]], "n")
          /\ Get(heap[documents[i]], "m") = Get(heap[documents[j]], "m")
    /\ \E i, j \in 1..Len(documents) :
          /\ Get(heap[documents[i]], "n") = Get(heap[documents[j]], "n")
          /\ Get(heap[documents[i]], "m") # Get(heap[documents[j]], "m")

\* the property names under which groupDocuments is to place a document
GroupKeys(document, field) ==
    LET value == IF field.kind = "name" THEN Get(document, field.name) ELSE Undefined
        key == IF field.kind = "function" THEN CallKeyFunction(field, document) ELSE value
    IN  IF value.kind = "array"
        THEN [i \in 1..Len(value.items) |-> ToString(value.items[i])]
        ELSE IF Falsy(key) THEN <<>> ELSE <<String(key)>>

ResultRefs(r) ==
    {r.docs[i] : i \in 1..Len(r.docs)}
    \cup UNION {{r.groups[k][i] : i \in 1..Len(r.groups[k])} : k \in DOMAIN r.groups}
    \cup UNION {{r.pages[p].documents[i] : i \in 1..Len(r.pages[p].documents)} :
                   p \in 1..Len(r.pages)}

\* C8: no call of filterDocuments, orderDocuments, groupDocuments or paginate
\* changes the input sequence or a field of a document, and every document
\* in a result is one of the input documents.
C8_InputUntouched ==
    [][/\ heap' = heap
       /\ documents' = documents
       /\ ResultRefs(ret') \subseteq {documents[i] : i \in 1..Len(documents)}]_vars

\* C8 witness: an ordering returned the input's documents in another order.
C8_Witness ==
    /\ call.op = "order"
    /\ Len(documents) = MaxDocs
    /\ ret.docs # documents
    /\ ResultRefs(ret) = {documents[i] : i \in 1..Len(documents)}

-----------------------------------------------------------------------------
(* Claims about the paginator *)

RequiredOptions == {"sourcePathPrefix", "urlPrefix", "documentsPerPage", "layout"}

\* the four required options are there: both prefixes (any string), a
\* positive documentsPerPage and a layout name
RequiredPresent(opts) ==
    /\ RequiredOptions \subseteq DOMAIN opts
    /\ opts.documentsPerPage >= 1
    /\ opts.layout # ""

\* ceiling(n / d): the least number of pages of d documents that hold n
Ceiling(n, d) == CHOOSE k \in 0..n : k * d >= n /\ (k = 0 \/ (k - 1) * d < n)

\* the documents of the pages, concatenated in page order
RECURSIVE Concatenated(_)
Concatenated(pages) ==
    IF pages = <<>> THEN <<>>
    ELSE Head(pages).documents \o Concatenated(Tail(pages))

\* C1: with the required options present and a positive documentsPerPage d,
\* paginate returns ceiling(N / d) pages; page n holds the slice
\* [(n-1)*d, n*d) of the input; the pages' documents concatenated are the
\* input; documentsTotal is N on every page.
C1_PagesPartition ==
    (call.op = "paginate" /\ RequiredPresent(options)) =>
        LET N == Len(documents)
            d == options.documentsPerPage
        IN  /\ ret.error = ""
            /\ Len(ret.pages) = Ceiling(N, d)
            /\ \A n \in 1..Len(ret.pages) :
                  /\ Len(ret.pages[n].documents) =
                        (IF n * d < N THEN n * d ELSE N) - (n - 1) * d
                  /\ \A i \in 1..Len(ret.pages[n].documents) :
                        ret.pages[n].documents[i] = documents[(n - 1) * d + i]
                  /\ ret.pages[n].documentsTotal = N
            /\ Concatenated(ret.pages) = documents

\* C1 witness: 10 documents at 4 per page gave 3 pages of 4, 4 and 2.
C1_Witness ==
    /\ call.op = "paginate"
    /\ Len(documents) = 10
    /\ RequiredPresent(options)
    /\ options.documentsPerPage = 4
    /\ Len(ret.pages) = 3
    /\ Len(ret.pages[1].documents) = 4
    /\ Len(ret.pages[2].documents) = 4
    /\ ret.pages[3].documents = <<9, 10>>
    /\ \A n \in 1..3 : ret.pages[n].documentsTotal = 10

\* the pages with the given url
PagesAt(pages, url) == {i \in 1..Len(pages) : pages[i].url = url}

\* the page numbers visited by following a link (nextUrl or previousUrl)
\* from page i until it is null, for at most fuel steps; 0 stands for a
\* link that leads to no page or to more than one
RECURSIVE Follow(_, _, _, _)
Follow(pages, i, link, fuel) ==
    IF fuel = 0 THEN <<>>
    ELSE IF pages[i][link].null THEN <<i>>
    ELSE LET at == PagesAt(pages, pages[i][link].str)
         IN  IF Cardinality(at) # 1 THEN <<i, 0>>
             ELSE <<i>> \o Follow(pages, CHOOSE j \in at : TRUE, link, fuel - 1)

\* C9: the first page's previousUrl and the last page's nextUrl are null;
\* between neighbours, nextUrl is the next page's url and previousUrl the
\* previous page's url; following nextUrl from page 1 visits every page
\* once, in page order, and ends at null, and previousUrl does the reverse.
C9_LinkedPages ==
    (call.op = "paginate" /\ Len(ret.pages) >= 1) =>
        LET pages == ret.pages
            last == Len(ret.pages)
        IN  /\ pages[1].previousUrl = Null
            /\ pages[last].nextUrl = Null
            /\ \A n \in 1..(last - 1) :
                  /\ pages[n].nextUrl = Str(pages[n + 1].url)
                  /\ pages[n + 1].previousUrl = Str(pages[n].url)
            /\ Follow(pages, 1, "nextUrl", last + 1) = [n \in 1..last |-> n]
            /\ Follow(pages, last, "previousUrl", last + 1) = [n \in 1..last |-> last + 1 - n]

\* C9 witness: four pages under a prefix whose page urls get a double
\* slash collapsed.
C9_Witness ==
    /\ call.op = "paginate"
    /\ Len(ret.pages) = 4
    /\ options.urlPrefix = "/"
    /\ ret.pages[2].url = "/page/2"
    /\ ret.pages[2].previousUrl = Str("/")
    /\ ret.pages[2].nextUrl = Str("/page/3")

\* C10: paginate throws, and returns no page, whenever one of
\* sourcePathPrefix, urlPrefix, documentsPerPage or layout is left out of
\* its configuration, whatever the documents.
C10_RequiredOptions ==
    (call.op = "paginate" /\ ~(RequiredOptions \subseteq DOMAIN options)) =>
        /\ ret.pages = <<>>
        /\ \E key \in RequiredOptions :
              ret.error = "\"" \o key \o "\" not specified for paginate()."

\* C10 witness: only layout is left out, the other options given and
\* documents to paginate: the call threw the layout error.
C10_Witness ==
    /\ call.op = "paginate"
    /\ DOMAIN options = OptionKeys \ {"layout"}
    /\ options.documentsPerPage = 2
    /\ Len(documents) = 3
    /\ ret.error = "\"layout\" not specified for paginate()."
    /\ ret.pages = <<>>

-----------------------------------------------------------------------------
(* PathUtil *)

\* the first index at which sub occurs in s, 0 when it does not
IndexOf(s, sub) ==
    LET at == {i \in 1..(Len(s) - Len(sub) + 1) : SubSeq(s, i, i + Len(sub) - 1) = sub}
    IN  IF at = {} THEN 0 ELSE CHOOSE i \in at : \A j \in at : i <= j

\* s.endsWith(suffix)
EndsWith(s, suffix) ==
    Len(s) >= Len(suffix) /\ SubSeq(s, Len(s) - Len(suffix) + 1, Len(s)) = suffix

\* path.extname(filename): from the last dot of the last path segment to the
\* end, "" when the segment has no dot or only starts with one
extname(filename) ==
    LET base == basename(filename)
        dot == LastIndexOf(base, ".")
    IN  IF dot <= 1 THEN "" ELSE SubSeq(base, dot, Len(base))

\* path.extname(filename).substring(1)
getExtension(filename) ==
    LET ext == extname(filename)
    IN  SubSeq(ext, 2, Len(ext))

\* url.replace(/\/index$/, '')
StripIndex(url) ==
    IF EndsWith(url, "/index") THEN SubSeq(url, 1, Len(url) - 6) ELSE url

\* a filepathToUrl that returns the stripped url as it is
filepathToUrlNoRoot(filepath) == StripIndex("/" \o removeExtension(filepath))

filepathToUrl(filepath) ==
    LET url == StripIndex("/" \o removeExtension(filepath))
    IN  IF url = "" THEN "/" ELSE url

-----------------------------------------------------------------------------
(* DocumentParser *)

\* a content renderer of the table {ext: renderFunction}: a function puts
\* its markup around the source; an entry need not be a function
Renderer(open, close) == [isFunction |-> TRUE, open |-> open, close |-> close]

NotAFunction == [isFunction |-> FALSE, open |-> "", close |-> ""]

\* render(source)
Render(render, source) == render.open \o source \o render.close

renderByType(source, filepath, renderers) ==
    LET extension == getExtension(filepath)
    IN  IF extension \in DOMAIN renderers /\ renderers[extension].isFunction
        THEN Render(renderers[extension], source)
        ELSE source

\* string.split(separator), for a non-empty separator
RECURSIVE Split(_, _)
Split(string, separator) ==
    LET at == IndexOf(string, separator)
    IN  IF at = 0 THEN <<string>>
        ELSE <<SubSeq(string, 1, at - 1)>>
             \o Split(SubSeq(string, at + Len(separator), Len(string)), separator)

WhiteSpace == {" ", "\n", "\t"}

\* string.trim()
trim(string) ==
    LET inside == {i \in 1..Len(string) : CharAt(string, i) \notin WhiteSpace}
    IN  IF inside = {} THEN ""
        ELSE SubSeq(string,
                    CHOOSE i \in inside : \A j \in inside : i <= j,
                    CHOOSE i \in inside : \A j \in inside : j <= i)

\* array[index], 0-based, as a value: undefined past the end
Element(array, index) ==
    IF index + 1 <= Len(array) THEN Text(array[index + 1]) ELSE Undefined

\* value && value.trim()
AndTrim(value) == IF Falsy(value) THEN value ELSE Text(trim(value.str))

\* a custom field parser is a function of the field's value and of all the
\* attributes; what it returns stands for itself
CallFieldParser(parser, value, attributes) ==
    Obj([parser |-> Text(parser), value |-> value, attributes |-> Obj(attributes)])

\* a parseCustomFields where the attributes override the parsed fields
parseCustomFieldsAttributesWin(attributes, fieldParsers) ==
    LET parsedAttributes ==
            [name \in DOMAIN fieldParsers |->
                CallFieldParser(fieldParsers[name], Get(attributes, name), attributes)]
    IN  Spread(parsedAttributes, attributes)

parseCustomFields(attributes, fieldParsers) ==
    LET parsedAttributes ==
            [name \in DOMAIN fieldParsers |->
                CallFieldParser(fieldParsers[name], Get(attributes, name), attributes)]
    IN  Spread(attributes, parsedAttributes)

\* the excerpt and more of parsePage: [excerpt, more] = content.split(cutTag)
\* when cutTag is given and not empty, both undefined otherwise
Cut(content, opts) ==
    IF Has(opts, "cutTag") /\ opts.cutTag # ""
    THEN LET parts == Split(content, opts.cutTag)
         IN  [excerpt |-> Element(parts, 0), more |-> Element(parts, 1)]
    ELSE [excerpt |-> Undefined, more |-> Undefined]

\* parsePage(source, filepath, opts): fastmatter is an outside library, and
\* a source is given as the attributes and the body fastmatter finds in it
parsePage(source, filepath, opts) ==
    LET attributes == source.attributes
        body == source.body
        url == filepathToUrl(filepath)
        renderers == IF Has(opts, "renderers") THEN opts.renderers ELSE <<>>
        fieldParsers == IF Has(opts, "fieldParsers") THEN opts.fieldParsers ELSE <<>>
        content == renderByType(body, filepath, renderers)
        cut == Cut(content, opts)
        extendedAttributes ==
            Spread(attributes,
                   [sourcePath |-> Text(filepath),
                    content |-> AndTrim(Text(content)),
                    excerpt |-> AndTrim(cut.excerpt),
                    more |-> AndTrim(cut.more),
                    url |-> Text(url)])
    IN  parseCustomFields(extendedAttributes, fieldParsers)

-----------------------------------------------------------------------------
(* The source files the model parses *)

FilePaths ==
    {"index.md", "posts/foo/index.md", "posts/foo.md", "about.html",
     "posts/index/index.md", "README", "a.b/index", "docs/v1.2/index.md"}

CutTag == "<cut>"

\* front matter: none, plain fields, and fields named like the derived ones
FrontMatters ==
    {<<>>,
     [title |-> Text("Foo"), date |-> Num(1)],
     [title |-> Text("Foo"), url |-> Text("/custom"), excerpt |-> Text("mine")],
     [sourcePath |-> Text("elsewhere.md"), content |-> Text("front"), more |-> Num(2)]}

\* bodies without the marker, with one (at the start, inside, at the end),
\* with two, blank and empty
Bodies ==
    {"", "  ", "no marker", " intro \n<cut>\n rest ", "intro<cut>rest",
     "<cut>rest", "intro<cut>", "a<cut>b<cut>c"}

Sources == [attributes : FrontMatters, body : Bodies]

ContentRenderers ==
    {<<>>, [md |-> Renderer("<p>", "</p>\n")], [md |-> NotAFunction]}

FieldParserTables ==
    {<<>>,
     [title |-> "upper"],
     [url |-> "absolute", date |-> "parseDate"],
     [excerpt |-> "plain", lang |-> "fromPath"]}

ParseOptionKeys == {"renderers", "fieldParsers", "cutTag"}

\* the options of parsePage, each left out or given
MakeParseOptions(renderers, fieldParsers, cutTag) ==
    LET given == [renderers |-> renderers, fieldParsers |-> fieldParsers,
                  cutTag |-> cutTag]
    IN  [k \in {key \in ParseOptionKeys : Len(given[key]) > 0} |-> given[k][1]]

ParseOptions ==
    {MakeParseOptions(r, f, c) :
        r \in Maybe(ContentRenderers), f \in Maybe(FieldParserTables),
        c \in Maybe({"", CutTag})}

\* what a call of the parser returns
ParserRet(url, document) ==
    [error |-> "", docs |-> <<>>, groups |-> <<>>, pages |-> <<>>,
     url |-> url, document |-> document]

\* nothing has been loaded or queried
InitParse ==
    /\ heap = <<>>
    /\ documents = <<>>
    /\ options = <<>>
    /\ call = NoCall
    /\ ret = NoRet
    /\ ConfigIdle

\* the parser keeps no state between calls: a behaviour is one call
FilepathToUrlCall ==
    /\ call = NoCall
    /\ \E filepath \in FilePaths :
          /\ call' = [op |-> "filepathToUrl", filepath |-> filepath]
          /\ ret' = ParserRet(filepathToUrl(filepath), <<>>)
    /\ UNCHANGED <<heap, documents, options>>
    /\ UNCHANGED configVars

ParsePageCall ==
    /\ call = NoCall
    /\ \E source \in Sources, filepath \in FilePaths, opts \in ParseOptions :
          /\ call' = [op |-> "parsePage", source |-> source, filepath |-> filepath,
                      opts |-> opts]
          /\ ret' = ParserRet("", parsePage(source, filepath, opts))
    /\ UNCHANGED <<heap, documents, options>>
    /\ UNCHANGED configVars

NextParse == FilepathToUrlCall \/ ParsePageCall

SpecParse == InitParse /\ [][NextParse]_vars

-----------------------------------------------------------------------------
(* PageRenderer *)

\* helpers[name].bind(context): a function value, known by its name
Bind(name) == [kind |-> "function", num |-> 0, str |-> name, items |-> <<>>, map |-> <<>>]

\* makeContext(document, config, helpers): helpers is the set of the names
\* of the helpers
makeContext(document, config, helpers) ==
    LET context == Spread([config |-> Obj(config)], document)
    IN  Spread(context, [name \in helpers |-> Bind(name)])

\* the template renderers and the feed serializer are outside functions:
\* what one returns stands for itself, the call with its arguments
RenderCall(by, templateFile, context) ==
    [by |-> by, templateFile |-> templateFile, context |-> context]

\* a template renderer that returns, and one that throws
Renders == [fails |-> FALSE]

Throws == [fails |-> TRUE]

\* what generatePage returns (error is "") or the error thrown, with the
\* calls made to the template renderer and the feed serializer
Generated(error, pagePath, content, calls) ==
    [error |-> error, pagePath |-> pagePath, content |-> content, calls |-> calls]

NoContent == RenderCall("", "", <<>>)

\* a page extension that is html whatever the layout
PageExtensionHtml(layout) == "html"

\* the extension of the page: getExtension(document.layout) || 'html'
PageExtension(layout) ==
    IF getExtension(layout) = "" THEN "html" ELSE getExtension(layout)

\* generatePage after its two checks: renderers is the sequence of the
\* <<extension, render>> pairs of the table, in its order
RenderDocument(document, config, helpers, renderers) ==
    LET layout == Get(document, "layout")
        pagePath == removeExtension(String(Get(document, "sourcePath")))
        pageContext == makeContext(document, config, helpers)
    IN  IF StrictEquals(layout, Text("RSS"))
        THEN LET content == RenderCall("renderRss", "", pageContext)
             IN  Generated("", pagePath \o ".xml", content, <<content>>)
        ELSE IF renderers = <<>>
        THEN Generated("TypeError: undefined is not iterable", "", NoContent, <<>>)
        ELSE LET templateExtension == renderers[1][1]
                 render == renderers[1][2]
                 templateFile == String(layout) \o "." \o templateExtension
                 content == RenderCall(templateExtension, templateFile, pageContext)
             IN  IF render.fails
                 THEN Generated("render failed", "", NoContent, <<content>>)
                 ELSE Generated("", pagePath \o "." \o PageExtension(String(layout)),
                                content, <<content>>)

\* a generatePage that renders without checking the document
generatePageUnchecked(document, config, helpers, renderers) ==
    RenderDocument(document, config, helpers, renderers)

\* generatePage(document, config, helpers, renderers)
generatePage(document, config, helpers, renderers) ==
    LET sourcePath == Get(document, "sourcePath")
        layout == Get(document, "layout")
    IN  IF Falsy(sourcePath)
        THEN Generated("Source path not specified. Add \"sourcePath\" front matter field.",
                       "", NoContent, <<>>)
        ELSE IF Falsy(layout)
        THEN Generated("Layout not specified for " \o String(sourcePath)
                           \o ". Add \"layout\" front matter field.",
                       "", NoContent, <<>>)
        ELSE RenderDocument(document, config, helpers, renderers)

\* what generatePages returns: the pages, or the error that ended the map
GeneratedPages(error, rendered, calls) ==
    [error |-> error, rendered |-> rendered, calls |-> calls]

\* documents.map(...) from the first of docs on, after the pages of done
RECURSIVE GeneratePagesFrom(_, _, _, _, _)
GeneratePagesFrom(done, docs, config, helpers, renderers) ==
    IF docs = <<>> THEN done
    ELSE LET page == generatePage(Head(docs), config, helpers, renderers)
         IN  IF page.error # ""
             THEN GeneratedPages(page.error, <<>>, done.calls \o page.calls)
             ELSE GeneratePagesFrom(
                      GeneratedPages("", Append(done.rendered,
                                                [pagePath |-> page.pagePath,
                                                 content |-> page.content]),
                                     done.calls \o page.calls),
                      Tail(docs), config, helpers, renderers)

\* generatePages(documents, config, helpers, renderers)
generatePages(docs, config, helpers, renderers) ==
    GeneratePagesFrom(GeneratedPages("", <<>>, <<>>), docs, config, helpers, renderers)

\* a page of paginate as the document generatePage is given: the fields
\* generatePage reads, the url and the total, as values
PageDocument(page) ==
    [sourcePath |-> Text(page.sourcePath),
     layout |-> Text(page.layout),
     url |-> Text(page.url),
     documentsTotal |-> Num(page.documentsTotal)]

-----------------------------------------------------------------------------
(* The documents the model renders *)

MaxRendered == 2

\* documents with and without sourcePath and layout (left out or empty), a
\* layout with an extension of its own, and the feed layout
RenderPool ==
    {Document("posts/a.md", "/posts/a", <<<<"layout", Text("post")>>>>),
     Document("atom.md", "/atom", <<<<"layout", Text("feed.xml")>>>>),
     Document("feed.md", "/feed", <<<<"layout", Text("RSS")>>>>),
     Document("blog/index", "/blog", <<<<"layout", Text("list")>>>>),
     Document("posts/b.md", "/posts/b", <<>>),
     Document("posts/c.md", "/posts/c", <<<<"layout", Text("")>>>>),
     Document("", "/", <<<<"layout", Text("post")>>>>),
     [layout |-> Text("post"), url |-> Text("/d")],
     [title |-> Text("Foo")]}

\* the table of template renderers: empty, one engine (that returns, or
\* throws), two engines
TemplateRenderers ==
    {<<>>,
     <<<<"ect", Renders>>>>,
     <<<<"ect", Throws>>>>,
     <<<<"jsx", Renders>>, <<"ect", Throws>>>>}

SiteConfig == [base |-> Obj([title |-> Text("Site")])]

SiteHelpers == {"link"}

\* the paginations of the rendered site: the source path prefix may be
\* empty, index may be left out
RenderPaginations ==
    {MakeOptions(<<sp>>, <<"/blog">>, <<1>>, <<"list">>, ix, <<>>) :
        sp \in {"", "blog"}, ix \in Maybe({TRUE})}

\* what a call of the renderer returns
RenderRet(error, pages, rendered, calls) ==
    [error |-> error, docs |-> <<>>, groups |-> <<>>, pages |-> pages,
     rendered |-> rendered, calls |-> calls]

InitRender == InitDocuments(RenderPool, MaxRendered, RenderPaginations) /\ ConfigIdle

\* generatePage on one document of the collection
GeneratePageCall ==
    /\ \E i \in 1..Len(documents), renderers \in TemplateRenderers :
          LET page == generatePage(heap[documents[i]], SiteConfig, SiteHelpers, renderers)
          IN  /\ call' = [op |-> "generatePage", document |-> documents[i],
                          renderers |-> renderers]
              /\ ret' = RenderRet(page.error, <<>>,
                                  IF page.error = "" THEN
                                      <<[pagePath |-> page.pagePath, content |-> page.content]>>
                                  ELSE <<>>,
                                  page.calls)
    /\ UNCHANGED <<heap, documents, options>>
    /\ UNCHANGED configVars

\* generatePages on the collection
GeneratePagesCall ==
    /\ \E renderers \in TemplateRenderers :
          LET pages == generatePages([i \in 1..Len(documents) |-> heap[documents[i]]],
                                     SiteConfig, SiteHelpers, renderers)
          IN  /\ call' = [op |-> "generatePages", renderers |-> renderers]
              /\ ret' = RenderRet(pages.error, <<>>, pages.rendered, pages.calls)
    /\ UNCHANGED <<heap, documents, options>>
    /\ UNCHANGED configVars

\* generatePages on the pages the last call of paginate returned
GeneratePaginatedCall ==
    /\ call.op = "paginate"
    /\ ret.error = ""
    /\ \E renderers \in TemplateRenderers :
          LET pages == generatePages([n \in 1..Len(ret.pages) |-> PageDocument(ret.pages[n])],
                                     SiteConfig, SiteHelpers, renderers)
          IN  /\ call' = [op |-> "generatePaginated", renderers |-> renderers]
              /\ ret' = RenderRet(pages.error, ret.pages, pages.rendered, pages.calls)
    /\ UNCHANGED <<heap, documents, options>>
    /\ UNCHANGED configVars

NextRender ==
    \/ GeneratePageCall
    \/ GeneratePagesCall
    \/ PaginateCall
    \/ GeneratePaginatedCall

SpecRender == InitRender /\ [][NextRender]_vars

-----------------------------------------------------------------------------
(* Claims about the page renderer *)

\* the document lacks the field: it is left out, or empty
Lacks(document, field) == Falsy(Get(document, field))

\* the template renderer tables whose first engine returns
WorkingRenderers ==
    {renderers \in TemplateRenderers : renderers # <<>> /\ ~renderers[1][2].fails}

\* the layouts a document may be given
Layouts == {"post", "feed.xml", "RSS"}

\* the first index of docs whose document lacks sourcePath or layout, 0
\* when none does
FirstLacking(docs) ==
    LET at == {i \in 1..Len(docs) : Lacks(docs[i], "sourcePath") \/ Lacks(docs[i], "layout")}
    IN  IF at = {} THEN 0 ELSE CHOOSE i \in at : \A j \in at : i <= j

\* C11: generatePage throws, and calls neither the template renderer nor
\* the feed serializer, for a document that lacks sourcePath or layout;
\* when only layout is lacking the message names the document's source
\* path, and the same document given a layout is rendered to a page by a
\* renderer that returns.  generatePages throws at the first such document,
\* having called the renderers for the documents before it only.
C11_MissingFieldErrors ==
    /\ call.op = "generatePage" =>
          LET document == heap[call.document]
          IN  /\ (Lacks(document, "sourcePath") \/ Lacks(document, "layout")) =>
                    /\ ret.error # ""
                    /\ ret.calls = <<>>
                    /\ ret.rendered = <<>>
              /\ (~Lacks(document, "sourcePath") /\ Lacks(document, "layout")) =>
                    /\ IndexOf(ret.error, document.sourcePath.str) > 0
                    /\ \A layout \in Layouts, renderers \in WorkingRenderers :
                          LET page == generatePage(Assign(document, "layout", Text(layout)),
                                                   SiteConfig, SiteHelpers, renderers)
                          IN  page.error = "" /\ page.pagePath # ""
    /\ call.op = "generatePages" =>
          LET docs == [i \in 1..Len(documents) |-> heap[documents[i]]]
          IN  FirstLacking(docs) > 0 =>
                 /\ ret.error # ""
                 /\ ret.rendered = <<>>
                 /\ Len(ret.calls) < FirstLacking(docs)

\* C11 witness: a document with a source path and no layout, given to
\* generatePage with an engine that returns: the error names the path, and
\* with the layout post the document becomes the page posts/b.html.
C11_Witness ==
    /\ call.op = "generatePage"
    /\ call.renderers \in WorkingRenderers
    /\ Get(heap[call.document], "sourcePath") = Text("posts/b.md")
    /\ "layout" \notin DOMAIN heap[call.document]
    /\ ret.error = "Layout not specified for posts/b.md. Add \"layout\" front matter field."
    /\ ret.calls = <<>>
    /\ generatePage(Assign(heap[call.document], "layout", Text("post")),
                    SiteConfig, SiteHelpers, call.renderers).pagePath = "posts/b.html"

-----------------------------------------------------------------------------
(* Claims about the document parser *)

\* the options of the last parsePage call, with their defaults
CallRenderers == IF Has(call.opts, "renderers") THEN call.opts.renderers ELSE <<>>

CallFieldParsers == IF Has(call.opts, "fieldParsers") THEN call.opts.fieldParsers ELSE <<>>

\* the rendered body of the last parsePage call
Rendered == renderByType(call.source.body, call.filepath, CallRenderers)

\* a cut marker is configured / occurs in the rendered body
MarkerConfigured == Has(call.opts, "cutTag") /\ call.opts.cutTag # ""

MarkerAt == IF MarkerConfigured THEN IndexOf(Rendered, call.opts.cutTag) ELSE 0

\* no custom field parser stands in for content, excerpt or more
CutFieldsPlain == DOMAIN CallFieldParsers \cap {"content", "excerpt", "more"} = {}

\* C12: parsePage sets excerpt and more exactly when a cut marker is
\* configured and occurs in the rendered body: excerpt is then the trimmed
\* text before the marker and more the trimmed text after it, all of it;
\* otherwise both are undefined and content is the whole trimmed body.
C12_ExcerptAndMore ==
    (call.op = "parsePage" /\ CutFieldsPlain) =>
        IF MarkerAt > 0
        THEN /\ ret.document.excerpt = Text(trim(SubSeq(Rendered, 1, MarkerAt - 1)))
             /\ ret.document.more =
                    Text(trim(SubSeq(Rendered, MarkerAt + Len(call.opts.cutTag), Len(Rendered))))
        ELSE /\ ret.document.excerpt = Undefined
             /\ ret.document.more = Undefined
             /\ ret.document.content = Text(trim(Rendered))

DerivedFields == {"sourcePath", "content", "excerpt", "more", "url"}

\* the value parsePage derives for a field of DerivedFields
DerivedValue(name) ==
    CASE name = "sourcePath" -> Text(call.filepath)
      [] name = "url" -> Text(filepathToUrl(call.filepath))
      [] name = "content" -> Text(trim(Rendered))
      [] name = "excerpt" -> AndTrim(Cut(Rendered, call.opts).excerpt)
      [] name = "more" -> AndTrim(Cut(Rendered, call.opts).more)

\* the metadata of the document before the custom field parsers: the front
\* matter, with the derived fields over it
Metadata ==
    [name \in DOMAIN call.source.attributes \cup DerivedFields |->
        IF name \in DerivedFields THEN DerivedValue(name)
        ELSE call.source.attributes[name]]

\* C13: every field of the document parsePage returns holds, if a custom
\* field parser is registered under its name, that parser's output for the
\* field's value and the whole metadata map; otherwise, if it is one of
\* sourcePath, content, excerpt, more, url, the derived value, whatever the
\* front matter says; otherwise the front-matter value.
C13_FieldPrecedence ==
    call.op = "parsePage" =>
        /\ DOMAIN ret.document = DOMAIN Metadata \cup DOMAIN CallFieldParsers
        /\ \A name \in DOMAIN ret.document :
              ret.document[name] =
                  IF name \in DOMAIN CallFieldParsers
                  THEN CallFieldParser(CallFieldParsers[name], Get(Metadata, name), Metadata)
                  ELSE IF name \in DerivedFields
                  THEN DerivedValue(name)
                  ELSE call.source.attributes[name]

\* C13 witness: the front matter sets title, url and excerpt, a parser is
\* registered for url and for date: url holds the parser's output for the
\* derived url, excerpt the derived value and title the front-matter one.
C13_Witness ==
    /\ call.op = "parsePage"
    /\ call.filepath = "posts/foo.md"
    /\ call.source.attributes =
           [title |-> Text("Foo"), url |-> Text("/custom"), excerpt |-> Text("mine")]
    /\ CallFieldParsers = [url |-> "absolute", date |-> "parseDate"]
    /\ call.source.body = "intro<cut>rest"
    /\ MarkerConfigured
    /\ ret.document.title = Text("Foo")
    /\ ret.document.excerpt = Text("intro")
    /\ ret.document.url.map.value = Text("/posts/foo")
    /\ ret.document.url.map.parser = Text("absolute")
    /\ ret.document.date.map.value = Undefined
    /\ ret.document.date.map.attributes.map.url = Text("/posts/foo")

\* the positions of name after which an extension follows to its end: a
\* dot, not the first character, then characters that are no dot or slash
ExtensionDots(name) ==
    {k \in 2..(Len(name) - 1) :
        /\ CharAt(name, k) = "."
        /\ \A j \in (k + 1)..Len(name) : CharAt(name, j) \notin {".", "/"}}

\* name without its extension
Stem(name) ==
    IF ExtensionDots(name) = {} THEN name
    ELSE SubSeq(name, 1, (CHOOSE k \in ExtensionDots(name) : TRUE) - 1)

\* the extension of name, "" when it has none
Embedded(name) ==
    IF ExtensionDots(name) = {} THEN ""
    ELSE SubSeq(name, (CHOOSE k \in ExtensionDots(name) : TRUE) + 1, Len(name))

\* C14: for a document with sourcePath and layout set, generatePage returns
\* the source path without its extension plus an output extension.  With
\* the feed layout RSS the extension is xml, the content comes from the
\* feed serializer and no template renderer is called.  Otherwise (the
\* table has a first engine, and it returns) the extension is the one
\* embedded in the layout name, html when it has none, and the content is
\* what the first engine of the table returns for the template file
\* <layout>.<its extension> and the render context.
C14_OutputPath ==
    (/\ call.op = "generatePage"
     /\ ~Lacks(heap[call.document], "sourcePath")
     /\ ~Lacks(heap[call.document], "layout")) =>
        LET document == heap[call.document]
            sourcePath == document.sourcePath.str
            layout == document.layout.str
            context == makeContext(document, SiteConfig, SiteHelpers)
        IN  IF layout = "RSS"
            THEN /\ ret.error = ""
                 /\ ret.rendered[1].pagePath = Stem(sourcePath) \o ".xml"
                 /\ ret.rendered[1].content = RenderCall("renderRss", "", context)
                 /\ ret.calls = <<ret.rendered[1].content>>
            ELSE call.renderers \in WorkingRenderers =>
                 /\ ret.error = ""
                 /\ ret.rendered[1].pagePath =
                        Stem(sourcePath) \o "."
                        \o (IF Embedded(layout) = "" THEN "html" ELSE Embedded(layout))
                 /\ ret.rendered[1].content =
                        RenderCall(call.renderers[1][1],
                                   layout \o "." \o call.renderers[1][1], context)
                 /\ ret.calls = <<ret.rendered[1].content>>

\* C14 witness: atom.md with the layout feed.xml and a table of two
\* engines: the page is atom.xml, rendered by the first engine from the
\* template feed.xml.jsx.
C14_Witness ==
    /\ call.op = "generatePage"
    /\ Get(heap[call.document], "sourcePath") = Text("atom.md")
    /\ Get(heap[call.document], "layout") = Text("feed.xml")
    /\ Len(call.renderers) = 2
    /\ ret.error = ""
    /\ ret.rendered[1].pagePath = "atom.xml"
    /\ ret.rendered[1].content.by = "jsx"
    /\ ret.rendered[1].content.templateFile = "feed.xml.jsx"
    /\ ret.rendered[1].content.context.sourcePath = Text("atom.md")
    /\ Len(ret.calls) = 1

-----------------------------------------------------------------------------
(* Claims about pagination paths and their rendering *)

\* the string holds a double slash
DoubleSlash(string) == IndexOf(string, "//") > 0

\* C15: no sourcePath, url, previousUrl or nextUrl of a page paginate
\* returns holds a double slash, whatever the prefixes are (empty, /,
\* ending in /, or holding // already).
C15_NoDoubleSlash ==
    call.op = "paginate" =>
        \A n \in 1..Len(ret.pages) :
            /\ ~DoubleSlash(ret.pages[n].sourcePath)
            /\ ~DoubleSlash(ret.pages[n].url)
            /\ ~DoubleSlash(ret.pages[n].previousUrl.str)
            /\ ~DoubleSlash(ret.pages[n].nextUrl.str)

MissingSourcePath == "Source path not specified. Add \"sourcePath\" front matter field."

\* the error is the missing-layout error of generatePage
MissingLayout(error) == IndexOf(error, "Layout not specified for ") = 1

\* C17: every page of a pagination paginate accepts has a sourcePath and a
\* layout that are not empty, so generatePage rejects none of them with its
\* missing-sourcePath or missing-layout error, and neither does
\* generatePages on the pages.
C17_PagesRenderable ==
    /\ (call.op = "paginate" /\ ret.error = "") =>
          \A n \in 1..Len(ret.pages) :
              /\ ret.pages[n].sourcePath # ""
              /\ ret.pages[n].layout # ""
              /\ \A renderers \in TemplateRenderers :
                    LET page == generatePage(PageDocument(ret.pages[n]), SiteConfig,
                                             SiteHelpers, renderers)
                    IN  page.error # MissingSourcePath /\ ~MissingLayout(page.error)
    /\ call.op = "generatePaginated" =>
          ret.error # MissingSourcePath /\ ~MissingLayout(ret.error)

-----------------------------------------------------------------------------
(* Claims about URLs of source files *)

\* path without one trailing index segment
WithoutIndex(path) ==
    IF path = "index" THEN ""
    ELSE IF EndsWith(path, "/index") THEN SubSeq(path, 1, Len(path) - Len("/index"))
    ELSE path

\* C16: for a relative file path, filepathToUrl returns a string that is
\* not empty and starts with /: / followed by the path without its file
\* extension and without one trailing /index segment, the root / when
\* nothing remains.  index.md gives /, posts/foo/index.md and posts/foo.md
\* give /posts/foo, and a path always gives the same URL.
C16_FilepathToUrl ==
    /\ call.op = "filepathToUrl" =>
          /\ ret.url # ""
          /\ CharAt(ret.url, 1) = "/"
          /\ ret.url = "/" \o WithoutIndex(Stem(call.filepath))
          /\ call.filepath = "index.md" => ret.url = "/"
          /\ call.filepath \in {"posts/foo/index.md", "posts/foo.md"} => ret.url = "/posts/foo"
    /\ (call.op = "parsePage" /\ "url" \notin DOMAIN CallFieldParsers) =>
          ret.document.url = Text(filepathToUrl(call.filepath))

\* C16 witness: the index file of a folder that is itself named index
\* loses one index segment only.
C16_Witness ==
    /\ call.op = "filepathToUrl"
    /\ call.filepath = "posts/index/index.md"
    /\ ret.url = "/posts/index"

=============================================================================
